---- MODULE Spec2Model ----
(***************************************************************************)
(* A model of the loreyawen framing engine: the raw frame codec, the MIC   *)
(* and keystream wrappers, frame-counter recovery and the seal / open      *)
(* pipelines working on a mutable session.                                 *)
(*                                                                         *)
(* Representation                                                          *)
(*  - A u32 is a record [hi, lo] of two 16-bit limbs, so that all          *)
(*    arithmetic keeps the 32-bit width of the source.                     *)
(*  - A byte of a frame is a record [v, ks]: the concrete value v XORed    *)
(*    with the pseudo-random bytes named in ks.  AES is an external        *)
(*    capability; its outputs (keystream bytes, CMAC bytes) are named by   *)
(*    the exact inputs they were computed from and two differently named   *)
(*    outputs are never equal (ideal cipher / ideal MIC).  XORing the      *)
(*    same pseudo-random byte twice cancels.                               *)
(***************************************************************************)
EXTENDS Integers, Sequences, FiniteSets, TLC

(***************************************************************************)
(* Bounds of the exploration                                               *)
(***************************************************************************)
\* plaintexts of 0..MaxLen bytes are explored next to the two boundary lengths
MaxLen == 1
\* counter limbs within Near of 0 and of 0xFFFF are explored
Near == 1
\* number of seal calls in one behaviour
MaxSeals == 1

(***************************************************************************)
(* u32 arithmetic on 16-bit limbs                                          *)
(***************************************************************************)
U32(hi, lo) == [hi |-> hi, lo |-> lo]

u32_MAX == U32(65535, 65535)

Lt32(a, b) == a.hi < b.hi \/ (a.hi = b.hi /\ a.lo < b.lo)

Le32(a, b) == a = b \/ Lt32(a, b)

\* Option<T>
Some(x) == [some |-> TRUE, val |-> x]

None == [some |-> FALSE, val |-> <<>>]

\* faulty variant of checked_add(1): the increment is forgotten
checked_add_0(a) == IF a = u32_MAX THEN None ELSE Some(a)

\* faulty variant of checked_add(1): u32::saturating_add(1), as unpack uses it
saturating_for_checked_add_1(a) ==
    IF a = u32_MAX THEN Some(u32_MAX)
    ELSE IF a.lo = 65535 THEN Some(U32(a.hi + 1, 0)) ELSE Some(U32(a.hi, a.lo + 1))

\* faulty variant of checked_add(1): u32::wrapping_add(1)
wrapping_add_1(a) ==
    IF a = u32_MAX THEN Some(U32(0, 0))
    ELSE IF a.lo = 65535 THEN Some(U32(a.hi + 1, 0)) ELSE Some(U32(a.hi, a.lo + 1))

\* u32::checked_add(1)
checked_add_1(a) ==
    IF a = u32_MAX THEN None
    ELSE IF a.lo = 65535 THEN Some(U32(a.hi + 1, 0)) ELSE Some(U32(a.hi, a.lo + 1))

\* faulty variant of saturating_add(1): the increment is forgotten
saturating_add_0(a) == a

\* u32::saturating_add(1)
saturating_add_1(a) ==
    IF a = u32_MAX THEN u32_MAX
    ELSE IF a.lo = 65535 THEN U32(a.hi + 1, 0) ELSE U32(a.hi, a.lo + 1)

\* faulty variant of saturating_add(0x1_0000): u32::wrapping_add(0x1_0000)
wrapping_add_64k(a) ==
    IF a.hi = 65535 THEN U32(0, a.lo) ELSE U32(a.hi + 1, a.lo)

\* u32::saturating_add(0x1_0000)
saturating_add_64k(a) ==
    IF a.hi = 65535 THEN u32_MAX ELSE U32(a.hi + 1, a.lo)

\* `x as u16`
as_u16(a) == a.lo

\* u32::to_le_bytes / u16::to_le_bytes (plain byte values)
u32_to_le_bytes(a) == <<a.lo % 256, a.lo \div 256, a.hi % 256, a.hi \div 256>>

u16_to_le_bytes(x) == <<x % 256, x \div 256>>

(***************************************************************************)
(* Frame bytes                                                             *)
(***************************************************************************)
\* a concrete byte
B(v) == [v |-> v, ks |-> {}]

Lift(bytes) == [i \in 1..Len(bytes) |-> B(bytes[i])]

\* faulty variant of XorKs: the pseudo-random byte is added to the byte, not XORed
AddKs(b, k) == [v |-> b.v, ks |-> b.ks \cup {k}]

\* XOR of a frame byte with one pseudo-random byte
XorKs(b, k) == [v |-> b.v, ks |-> (b.ks \ {k}) \cup ({k} \ b.ks)]

\* flip bit k of a frame byte
FlipBit(b, k) ==
    LET p == 2 ^ k
    IN  [v |-> IF (b.v \div p) % 2 = 1 THEN b.v - p ELSE b.v + p, ks |-> b.ks]

\* equality of the names of two pseudo-random bytes
SameName(k1, k2) ==
    /\ k1.prf = k2.prf
    /\ k1.key = k2.key
    /\ k1.idx = k2.idx
    /\ k1.input = k2.input

\* equality of two frame bytes
SameByte(x, y) ==
    /\ x.v = y.v
    /\ Cardinality(x.ks) = Cardinality(y.ks)
    /\ \A k1 \in x.ks : \E k2 \in y.ks : SameName(k1, k2)

\* equality of two byte strings
SameBytes(xs, ys) ==
    /\ Len(xs) = Len(ys)
    /\ \A i \in 1..Len(xs) : SameByte(xs[i], ys[i])

FlipAt(bytes, pos, k) == [bytes EXCEPT ![pos] = FlipBit(bytes[pos], k)]

u32_from_le_bytes(b0, b1, b2, b3) == U32(b3.v * 256 + b2.v, b1.v * 256 + b0.v)

u16_from_le_bytes(b0, b1) == b1.v * 256 + b0.v

Direction == {"Uplink", "Downlink"}

\* `direction as u8`
DirOctet(d) == IF d = "Uplink" THEN 0 ELSE 1

(***************************************************************************)
(* Builds: the two raw-frame codecs of the repository and the MIC length   *)
(* selected by the "extended-mic" feature                                  *)
(***************************************************************************)
Builds ==
    { [codec |-> "raw", extended_mic |-> TRUE],
      [codec |-> "rawframe", extended_mic |-> FALSE],
      [codec |-> "rawframe", extended_mic |-> TRUE] }

MHDR == 224

FPORT == 1

HEADER_SIZE(b) == IF b.codec = "raw" THEN 8 ELSE 9

MIC_SIZE(b) == IF b.codec = "raw" THEN 8 ELSE IF b.extended_mic THEN 8 ELSE 4

MAX_MESSAGE_SIZE == 255

\* faulty variant of MAX_PAYLOAD_SIZE: the MIC is not taken off the message size
MAX_PAYLOAD_SIZE_no_mic(b) == MAX_MESSAGE_SIZE - HEADER_SIZE(b)

MAX_PAYLOAD_SIZE(b) == MAX_MESSAGE_SIZE - HEADER_SIZE(b) - MIC_SIZE(b)

Zeros(n) == [i \in 1..n |-> 0]

(***************************************************************************)
(* Raw frame codec.  A raw frame is [header, payload, mic]; payload is the *)
(* used part payload[..payload_len] of the buffer.                         *)
(***************************************************************************)
\* faulty variant of RawFrame_new: the length of the payload is not checked
RawFrame_new_unchecked(b, payload) ==
    Some([ header  |-> IF b.codec = "raw"
                       THEN Lift(<<MHDR, 0, 0, 0, 0, 0, 0, FPORT>>)
                       ELSE Lift(<<MHDR, 0, 0, 0, 0, 0, 0, 0, 0>>),
           payload |-> Lift(payload),
           mic     |-> Lift(Zeros(MIC_SIZE(b))) ])

\* faulty variant of RawFrame_new: a payload of MAX_PAYLOAD_SIZE bytes is too large
RawFrame_new_exclusive(b, payload) ==
    IF Len(payload) >= MAX_PAYLOAD_SIZE(b) THEN None
    ELSE Some([ header  |-> IF b.codec = "raw"
                            THEN Lift(<<MHDR, 0, 0, 0, 0, 0, 0, FPORT>>)
                            ELSE Lift(<<MHDR, 0, 0, 0, 0, 0, 0, 0, 0>>),
                payload |-> Lift(payload),
                mic     |-> Lift(Zeros(MIC_SIZE(b))) ])

\* RawFrame::new: None stands for the panic "payload is too large"
RawFrame_new(b, payload) ==
    IF Len(payload) > MAX_PAYLOAD_SIZE(b) THEN None
    ELSE Some([ header  |-> IF b.codec = "raw"
                            THEN Lift(<<MHDR, 0, 0, 0, 0, 0, 0, FPORT>>)
                            ELSE Lift(<<MHDR, 0, 0, 0, 0, 0, 0, 0, 0>>),
                payload |-> Lift(payload),
                mic     |-> Lift(Zeros(MIC_SIZE(b))) ])

\* faulty variant of valid_header: the byte at offset 7 is not looked at
valid_header_mhdr_only(b, header) == header[1] = B(MHDR)

\* the header pattern of RawFrame::parse
valid_header(b, header) ==
    /\ header[1] = B(MHDR)
    /\ b.codec = "raw" => header[8] = B(FPORT)

\* faulty variant of RawFrame_parse: a frame without payload is rejected
RawFrame_parse_nonempty(b, frame) ==
    LET H == HEADER_SIZE(b)
        M == MIC_SIZE(b)
        payload_len == Len(frame) - H - M
    IN  IF payload_len <= 0 THEN None
        ELSE LET header  == SubSeq(frame, 1, H)
                 payload == SubSeq(frame, H + 1, H + payload_len)
                 mic     == SubSeq(frame, H + payload_len + 1, Len(frame))
             IN  IF ~valid_header(b, header) THEN None
                 ELSE IF payload_len > MAX_PAYLOAD_SIZE(b) THEN None
                 ELSE Some([header |-> header, payload |-> payload, mic |-> mic])

RawFrame_parse(b, frame) ==
    LET H == HEADER_SIZE(b)
        M == MIC_SIZE(b)
        payload_len == Len(frame) - H - M
    IN  IF payload_len < 0 THEN None
        ELSE LET header  == SubSeq(frame, 1, H)
                 payload == SubSeq(frame, H + 1, H + payload_len)
                 mic     == SubSeq(frame, H + payload_len + 1, Len(frame))
             IN  IF ~valid_header(b, header) THEN None
                 ELSE IF payload_len > MAX_PAYLOAD_SIZE(b) THEN None
                 ELSE Some([header |-> header, payload |-> payload, mic |-> mic])

\* faulty variant of into_frame: the MIC is emitted before the payload
into_frame_mic_first(b, raw) ==
    IF HEADER_SIZE(b) + Len(raw.payload) + MIC_SIZE(b) > MAX_MESSAGE_SIZE THEN None
    ELSE Some(raw.header \o raw.mic \o raw.payload)

\* RawFrame::into_frame: None stands for an out-of-range slice of the buffer
into_frame(b, raw) ==
    IF HEADER_SIZE(b) + Len(raw.payload) + MIC_SIZE(b) > MAX_MESSAGE_SIZE THEN None
    ELSE Some(raw.header \o raw.payload \o raw.mic)

address(raw) == u32_from_le_bytes(raw.header[2], raw.header[3], raw.header[4], raw.header[5])

\* faulty variant of set_address: the address is written one byte too early, over MHDR
set_address_from_0(raw, addr) ==
    LET a == u32_to_le_bytes(addr)
    IN  [raw EXCEPT !.header = [raw.header EXCEPT ![1] = B(a[1]), ![2] = B(a[2]),
                                                  ![3] = B(a[3]), ![4] = B(a[4])]]

set_address(raw, addr) ==
    LET a == u32_to_le_bytes(addr)
    IN  [raw EXCEPT !.header = [raw.header EXCEPT ![2] = B(a[1]), ![3] = B(a[2]),
                                                  ![4] = B(a[3]), ![5] = B(a[4])]]

\* offset (1-based) of the first FCnt byte
FCntAt(b) == IF b.codec = "raw" THEN 6 ELSE 7

frame_counter_lsbs(b, raw) == u16_from_le_bytes(raw.header[FCntAt(b)], raw.header[FCntAt(b) + 1])

\* faulty variant of set_frame_counter_lsbs: the two bytes in big-endian order
set_frame_counter_msbf(b, raw, lsbs) ==
    LET c == u16_to_le_bytes(lsbs)
    IN  [raw EXCEPT !.header = [raw.header EXCEPT ![FCntAt(b)] = B(c[2]),
                                                  ![FCntAt(b) + 1] = B(c[1])]]

set_frame_counter_lsbs(b, raw, lsbs) ==
    LET c == u16_to_le_bytes(lsbs)
    IN  [raw EXCEPT !.header = [raw.header EXCEPT ![FCntAt(b)] = B(c[1]),
                                                  ![FCntAt(b) + 1] = B(c[2])]]

\* rawframe.rs only
set_frame_ctrl(raw, frame_ctrl) == [raw EXCEPT !.header = [raw.header EXCEPT ![6] = B(frame_ctrl)]]

\* rawframe.rs only
set_frame_port(raw, frame_port) == [raw EXCEPT !.header = [raw.header EXCEPT ![9] = B(frame_port)]]

\* *raw.mic_mut() = mic
set_mic(raw, mic) == [raw EXCEPT !.mic = mic]

(***************************************************************************)
(* MIC: CMAC over block0 || header || payload, truncated to MIC_SIZE       *)
(***************************************************************************)
\* faulty variant of block0: the direction octet is left zero
cmac_block0_undirected(d, addr, frame_counter, message_len) ==
    <<73, 0, 0, 0, 0, 0>> \o u32_to_le_bytes(addr)
        \o u32_to_le_bytes(frame_counter) \o <<0, message_len>>

cmac_block0(d, addr, frame_counter, message_len) ==
    <<73, 0, 0, 0, 0, DirOctet(d)>> \o u32_to_le_bytes(addr)
        \o u32_to_le_bytes(frame_counter) \o <<0, message_len>>

\* the CMAC state after the three updates; None stands for "Message is too large"
cmac(nwkskey, d, addr, frame_counter, header, payload) ==
    LET message_len == Len(header) + Len(payload)
    IN  IF message_len > 255 THEN None
        ELSE Some([key |-> nwkskey,
                   input |-> Lift(cmac_block0(d, addr, frame_counter, message_len))
                                \o header \o payload])

\* the first n bytes of the tag of a CMAC state
Tag(state, n) ==
    [i \in 1..n |-> [v |-> 0, ks |-> {[prf |-> "cmac", key |-> state.key,
                                       input |-> state.input, idx |-> i]}]]

compute(b, nwkskey, d, addr, frame_counter, header, payload) ==
    LET st == cmac(nwkskey, d, addr, frame_counter, header, payload)
    IN  IF st.some THEN Some(Tag(st.val, MIC_SIZE(b))) ELSE None

\* faulty variant of verify: only the first byte of the MIC is compared
verify_first_byte(b, nwkskey, d, addr, frame_counter, header, payload, expected_mic) ==
    LET total_length == Len(header) + Len(payload)
    IN  IF total_length > 255 THEN FALSE
        ELSE SameBytes(Tag(cmac(nwkskey, d, addr, frame_counter, header, payload).val, 1),
                       SubSeq(expected_mic, 1, 1))

\* faulty variant of verify_call: the length is not looked at before the CMAC is built
verify_call_unguarded(b, nwkskey, d, addr, frame_counter, header, payload, expected_mic) ==
    LET st == cmac(nwkskey, d, addr, frame_counter, header, payload)
    IN  IF ~st.some THEN [result |-> "panic", steps |-> <<"cmac">>]
        ELSE [result |-> IF SameBytes(Tag(st.val, Len(expected_mic)), expected_mic)
                         THEN "true" ELSE "false",
              steps |-> <<"cmac", "block0", "verify_truncated_left">>]

\* a call of verify: what it returns and the steps it takes
verify_call(b, nwkskey, d, addr, frame_counter, header, payload, expected_mic) ==
    LET total_length == Len(header) + Len(payload)
    IN  IF total_length > 255 THEN [result |-> "false", steps |-> <<"total_length">>]
        ELSE LET st == cmac(nwkskey, d, addr, frame_counter, header, payload)
             IN  IF ~st.some
                 THEN [result |-> "panic", steps |-> <<"total_length", "cmac">>]
                 ELSE [result |-> IF SameBytes(Tag(st.val, Len(expected_mic)), expected_mic)
                                  THEN "true" ELSE "false",
                       steps |-> <<"total_length", "cmac", "block0",
                                   "verify_truncated_left">>]

verify(b, nwkskey, d, addr, frame_counter, header, payload, expected_mic) ==
    verify_call(b, nwkskey, d, addr, frame_counter, header, payload, expected_mic).result
        = "true"

(***************************************************************************)
(* Keystream: AES-CTR (128-bit big-endian counter) started at block0       *)
(***************************************************************************)
ctr_block0(d, addr, frame_counter) ==
    <<1, 0, 0, 0, 0, DirOctet(d)>> \o u32_to_le_bytes(addr)
        \o u32_to_le_bytes(frame_counter) \o <<0, 1>>

\* the counter block j blocks after iv
Ctr128BE(iv, j) ==
    [iv EXCEPT ![16] = (iv[16] + j) % 256,
               ![15] = (iv[15] + ((iv[16] + j) \div 256)) % 256]

\* faulty variant of apply: 256 blocks are let through
apply_256_blocks(appskey, d, addr, frame_counter, data) ==
    IF Len(data) > 256 * 16 THEN None
    ELSE LET iv == ctr_block0(d, addr, frame_counter)
         IN  Some([i \in 1..Len(data) |->
                     XorKs(data[i], [prf |-> "ctr", key |-> appskey,
                                     input |-> Ctr128BE(iv, (i - 1) \div 16),
                                     idx |-> ((i - 1) % 16) + 1])])

\* None stands for the panic "Data is too long"
apply(appskey, d, addr, frame_counter, data) ==
    IF Len(data) > 255 * 16 THEN None
    ELSE LET iv == ctr_block0(d, addr, frame_counter)
         IN  Some([i \in 1..Len(data) |->
                     XorKs(data[i], [prf |-> "ctr", key |-> appskey,
                                     input |-> Ctr128BE(iv, (i - 1) \div 16),
                                     idx |-> ((i - 1) % 16) + 1])])

(***************************************************************************)
(* Frame-counter recovery                                                  *)
(***************************************************************************)
RESERVED_FRAME_COUNTER == u32_MAX

\* faulty variant of recover_frame_counter: the upper half of the expected counter is
\* dropped
recover_lsbs_only(frame_counter_lsbs_, next_frame_counter) ==
    U32(0, frame_counter_lsbs_)

\* faulty variant of recover_frame_counter: the upper half of the expected counter is
\* taken as it is, without the step into the next window
recover_same_window(frame_counter_lsbs_, next_frame_counter) ==
    U32(next_frame_counter.hi, frame_counter_lsbs_)

\* faulty variant of recover_frame_counter: `>` in place of `>=`
recover_strictly_greater(frame_counter_lsbs_, next_frame_counter) ==
    LET recovered == U32(next_frame_counter.hi, frame_counter_lsbs_)
    IN  IF Lt32(next_frame_counter, recovered) THEN recovered
        ELSE saturating_add_64k(recovered)

\* faulty variant of recover_frame_counter: the step into the next window is always
\* taken
recover_next_window(frame_counter_lsbs_, next_frame_counter) ==
    saturating_add_64k(U32(next_frame_counter.hi, frame_counter_lsbs_))

\* faulty variant of recover_frame_counter: the step into the next window wraps around
recover_wrapping(frame_counter_lsbs_, next_frame_counter) ==
    LET recovered == U32(next_frame_counter.hi, frame_counter_lsbs_)
    IN  IF ~Lt32(recovered, next_frame_counter) THEN recovered
        ELSE wrapping_add_64k(recovered)

recover_frame_counter(frame_counter_lsbs_, next_frame_counter) ==
    LET recovered == U32(next_frame_counter.hi, frame_counter_lsbs_)
    IN  IF ~Lt32(recovered, next_frame_counter) THEN recovered
        ELSE saturating_add_64k(recovered)

(***************************************************************************)
(* Session state                                                           *)
(***************************************************************************)
\* faulty variant of set_frame_counter: the counter is written for both directions
set_frame_counter_both(sess, counter, d) ==
    [sess EXCEPT !.frame_counter = [e \in Direction |-> counter]]

set_frame_counter(sess, counter, d) == [sess EXCEPT !.frame_counter[d] = counter]

(***************************************************************************)
(* Seal pipeline.  The outcome of a call is                                *)
(*   [result, stage, steps, session, out, frame_counter, writes]           *)
(* result "ok" | "none" | "panic", stage the step that ended the call,     *)
(* steps the steps executed in order, session the session after the call,  *)
(* writes the number of set_frame_counter calls.                           *)
(***************************************************************************)
Outcome(result, stage, steps, sess, out, fc, writes) ==
    [result |-> result, stage |-> stage, steps |-> steps, session |-> sess,
     out |-> out, frame_counter |-> fc, writes |-> writes]

\* the header setters a caller of builderseal.rs may use between set_plaintext and pack
NoOpts == [set |-> FALSE, frame_ctrl |-> 0, frame_port |-> 0]

\* faulty variant of pack: the MIC is computed over the plaintext, before the payload
\* is encrypted
pack_mic_over_plaintext(b, sess, d, plaintext, opts) ==
    LET new  == RawFrame_new(b, plaintext)
        addr == sess.device_address
        next_frame_counter == sess.frame_counter[d]
        s0 == IF b.codec = "raw" THEN <<"read_session", "new">> ELSE <<"new">>
        s1 == IF b.codec = "raw" THEN s0
              ELSE IF opts.set THEN s0 \o <<"set_frame_ctrl", "set_frame_port", "read_session">>
              ELSE s0 \o <<"read_session">>
        s2 == s1 \o <<"set_address", "set_frame_counter_lsbs", "compute">>
        s3 == s2 \o <<"apply">>
        s4 == s3 \o <<"checked_add">>
        s5 == s4 \o <<"set_frame_counter", "into_frame">>
    IN  IF ~new.some THEN Outcome("panic", "payload", s0, sess, <<>>, next_frame_counter, 0)
        ELSE
        LET raw0 == IF b.codec = "rawframe" /\ opts.set
                    THEN set_frame_port(set_frame_ctrl(new.val, opts.frame_ctrl), opts.frame_port)
                    ELSE new.val
            raw1 == set_frame_counter_lsbs(b, set_address(raw0, addr), as_u16(next_frame_counter))
            mic  == compute(b, sess.nwkskey, d, addr, next_frame_counter,
                            raw1.header, raw1.payload)
        IN  IF ~mic.some THEN Outcome("panic", "mic", s2, sess, <<>>, next_frame_counter, 0)
            ELSE
            LET enc == apply(sess.appskey, d, addr, next_frame_counter, raw1.payload)
            IN  IF ~enc.some THEN Outcome("panic", "stream", s3, sess, <<>>, next_frame_counter, 0)
                ELSE
                LET raw3 == [raw1 EXCEPT !.payload = enc.val, !.mic = mic.val]
                    inc  == checked_add_1(next_frame_counter)
                IN  IF ~inc.some
                    THEN Outcome("panic", "exhausted", s4, sess, <<>>, next_frame_counter, 0)
                    ELSE
                    LET sess2 == set_frame_counter(sess, inc.val, d)
                        out   == into_frame(b, raw3)
                    IN  IF ~out.some
                        THEN Outcome("panic", "buffer", s5, sess2, <<>>, next_frame_counter, 1)
                        ELSE Outcome("ok", "done", s5, sess2, out.val, next_frame_counter, 1)

\* set_plaintext ; (set_frame_ctrl ; set_frame_port) ; pack        (builderseal.rs)
\* set_payload                                                     (sealed.rs)
pack(b, sess, d, plaintext, opts) ==
    LET new  == RawFrame_new(b, plaintext)
        addr == sess.device_address
        next_frame_counter == sess.frame_counter[d]
        s0 == IF b.codec = "raw" THEN <<"read_session", "new">> ELSE <<"new">>
        s1 == IF b.codec = "raw" THEN s0
              ELSE IF opts.set THEN s0 \o <<"set_frame_ctrl", "set_frame_port", "read_session">>
              ELSE s0 \o <<"read_session">>
        s2 == s1 \o <<"set_address", "set_frame_counter_lsbs", "apply">>
        s3 == s2 \o <<"compute">>
        s4 == s3 \o <<"checked_add">>
        s5 == s4 \o <<"set_frame_counter", "into_frame">>
    IN  IF ~new.some THEN Outcome("panic", "payload", s0, sess, <<>>, next_frame_counter, 0)
        ELSE
        LET raw0 == IF b.codec = "rawframe" /\ opts.set
                    THEN set_frame_port(set_frame_ctrl(new.val, opts.frame_ctrl), opts.frame_port)
                    ELSE new.val
            raw1 == set_frame_counter_lsbs(b, set_address(raw0, addr), as_u16(next_frame_counter))
            enc  == apply(sess.appskey, d, addr, next_frame_counter, raw1.payload)
        IN  IF ~enc.some THEN Outcome("panic", "stream", s2, sess, <<>>, next_frame_counter, 0)
            ELSE
            LET raw2 == [raw1 EXCEPT !.payload = enc.val]
                mic  == compute(b, sess.nwkskey, d, addr, next_frame_counter,
                                raw2.header, raw2.payload)
            IN  IF ~mic.some THEN Outcome("panic", "mic", s3, sess, <<>>, next_frame_counter, 0)
                ELSE
                LET raw3 == [raw2 EXCEPT !.mic = mic.val]
                    inc  == checked_add_1(next_frame_counter)
                IN  IF ~inc.some
                    THEN Outcome("panic", "exhausted", s4, sess, <<>>, next_frame_counter, 0)
                    ELSE
                    LET sess2 == set_frame_counter(sess, inc.val, d)
                        out   == into_frame(b, raw3)
                    IN  IF ~out.some
                        THEN Outcome("panic", "buffer", s5, sess2, <<>>, next_frame_counter, 1)
                        ELSE Outcome("ok", "done", s5, sess2, out.val, next_frame_counter, 1)

(***************************************************************************)
(* Open pipeline: set_frame ; unpack   (builderopen.rs, plaintext.rs)      *)
(***************************************************************************)
\* faulty variant of addressed_to: only the lower half of the address is compared
addressed_to_lsbs(raw, device_address) == address(raw).lo = device_address.lo

\* the first step of unpack: is the frame addressed to this session?
addressed_to(raw, device_address) == address(raw) = device_address

\* faulty variant of commit: the expected counter is advanced, not the frame's
commit_expected(sess, frame_counter, d) ==
    set_frame_counter(sess, saturating_add_1(sess.frame_counter[d]), d)

\* the last step of unpack: the counter after the frame's becomes the next one
commit(sess, frame_counter, d) ==
    set_frame_counter(sess, saturating_add_1(frame_counter), d)

\* faulty variant of Observed: the parse failure is reported by unpack as well
Observed_by_unpack(result, stage) ==
    [call |-> "unpack",
     value |-> IF result = "ok" THEN "Some" ELSE IF result = "none" THEN "None" ELSE "panic"]

\* what the caller of set_frame(frame)?.unpack() sees of an outcome: the call that
\* returned it, and whether it returned a value
Observed(result, stage) ==
    [call |-> IF stage = "parse" THEN "set_frame" ELSE "unpack",
     value |-> IF result = "ok" THEN "Some" ELSE IF result = "none" THEN "None" ELSE "panic"]

\* faulty variant of unpack: the payload is decrypted before the MIC is verified
unpack_decrypt_first(b, sess, d, frame) ==
    LET parsed == RawFrame_parse(b, frame)
        next_frame_counter == sess.frame_counter[d]
    IN  IF ~parsed.some
        THEN Outcome("none", "parse", <<"parse">>, sess, <<>>, next_frame_counter, 0)
        ELSE IF ~addressed_to(parsed.val, sess.device_address)
        THEN Outcome("none", "address", <<"parse", "address">>, sess, <<>>,
                     next_frame_counter, 0)
        ELSE
        LET raw == parsed.val
            frame_counter ==
                recover_frame_counter(frame_counter_lsbs(b, raw), next_frame_counter)
            dec == apply(sess.appskey, d, address(raw), frame_counter, raw.payload)
        IN  IF ~Lt32(frame_counter, RESERVED_FRAME_COUNTER)
            THEN Outcome("none", "reserved", <<"parse", "address", "recover">>, sess, <<>>,
                         frame_counter, 0)
            ELSE IF ~dec.some
            THEN Outcome("panic", "stream", <<"parse", "address", "recover", "apply">>,
                         sess, <<>>, frame_counter, 0)
            ELSE IF ~verify(b, sess.nwkskey, d, address(raw), frame_counter,
                            raw.header, raw.payload, raw.mic)
            THEN Outcome("none", "mic", <<"parse", "address", "recover", "apply", "verify">>,
                         sess, <<>>, frame_counter, 0)
            ELSE Outcome("ok", "done",
                         <<"parse", "address", "recover", "apply", "verify",
                           "set_frame_counter">>,
                         commit(sess, frame_counter, d), dec.val, frame_counter, 1)

\* faulty variant of unpack: the counter is committed as soon as it is recovered,
\* before the MIC is verified
unpack_commit_first(b, sess, d, frame) ==
    LET parsed == RawFrame_parse(b, frame)
        next_frame_counter == sess.frame_counter[d]
    IN  IF ~parsed.some
        THEN Outcome("none", "parse", <<"parse">>, sess, <<>>, next_frame_counter, 0)
        ELSE IF ~addressed_to(parsed.val, sess.device_address)
        THEN Outcome("none", "address", <<"parse", "address">>, sess, <<>>,
                     next_frame_counter, 0)
        ELSE
        LET raw == parsed.val
            frame_counter ==
                recover_frame_counter(frame_counter_lsbs(b, raw), next_frame_counter)
            sess2 == commit(sess, frame_counter, d)
            dec == apply(sess.appskey, d, address(raw), frame_counter, raw.payload)
        IN  IF ~Lt32(frame_counter, RESERVED_FRAME_COUNTER)
            THEN Outcome("none", "reserved", <<"parse", "address", "recover">>, sess, <<>>,
                         frame_counter, 0)
            ELSE IF ~verify(b, sess.nwkskey, d, address(raw), frame_counter,
                            raw.header, raw.payload, raw.mic)
            THEN Outcome("none", "mic",
                         <<"parse", "address", "recover", "set_frame_counter", "verify">>,
                         sess2, <<>>, frame_counter, 1)
            ELSE IF ~dec.some
            THEN Outcome("panic", "stream",
                         <<"parse", "address", "recover", "set_frame_counter", "verify",
                           "apply">>, sess2, <<>>, frame_counter, 1)
            ELSE Outcome("ok", "done",
                         <<"parse", "address", "recover", "set_frame_counter", "verify",
                           "apply">>, sess2, dec.val, frame_counter, 1)

unpack(b, sess, d, frame) ==
    LET parsed == RawFrame_parse(b, frame)
        next_frame_counter == sess.frame_counter[d]
    IN  IF ~parsed.some
        THEN Outcome("none", "parse", <<"parse">>, sess, <<>>, next_frame_counter, 0)
        ELSE
        LET raw == parsed.val
            device_address == sess.device_address
        IN  IF ~addressed_to(raw, device_address)
            THEN Outcome("none", "address", <<"parse", "address">>, sess, <<>>,
                         next_frame_counter, 0)
            ELSE
            LET maybe_frame_counter ==
                    recover_frame_counter(frame_counter_lsbs(b, raw), next_frame_counter)
            IN  IF ~Lt32(maybe_frame_counter, RESERVED_FRAME_COUNTER)
                THEN Outcome("none", "reserved", <<"parse", "address", "recover">>, sess, <<>>,
                             maybe_frame_counter, 0)
                ELSE
                LET frame_counter == maybe_frame_counter
                    mic_valid == verify(b, sess.nwkskey, d, address(raw), frame_counter,
                                        raw.header, raw.payload, raw.mic)
                IN  IF ~mic_valid
                    THEN Outcome("none", "mic", <<"parse", "address", "recover", "verify">>,
                                 sess, <<>>, frame_counter, 0)
                    ELSE
                    LET dec == apply(sess.appskey, d, address(raw), frame_counter, raw.payload)
                    IN  IF ~dec.some
                        THEN Outcome("panic", "stream",
                                     <<"parse", "address", "recover", "verify", "apply">>,
                                     sess, <<>>, frame_counter, 0)
                        ELSE Outcome("ok", "done",
                                     <<"parse", "address", "recover", "verify", "apply",
                                       "set_frame_counter">>,
                                     commit(sess, frame_counter, d),
                                     dec.val, frame_counter, 1)

(***************************************************************************)
(* The system: two sessions ("snd", "rcv") sharing a channel that holds    *)
(* the frame sealed last.  A caller seals a plaintext or opens frame bytes *)
(* (the frame of the channel, a damaged copy of it, or made-up bytes),     *)
(* looks at the outcome (pc = "returned") and goes on (pc = "idle").       *)
(*                                                                         *)
(* env names what the environment does in a behaviour:                     *)
(*   "counters"  the primary build, every pair of sampled counters, intact *)
(*               frames only;                                              *)
(*   "lengths"   every build, plaintexts and frames of the boundary        *)
(*               lengths;                                                  *)
(*   "frames"    every build and every kind of peer, short plaintexts,     *)
(*               damaged and made-up frames; the frame with one bit        *)
(*               flipped is handed to the receiving session in the         *)
(*               direction it was sealed for.                              *)
(***************************************************************************)
VARIABLES env, build, session, wire, last, nseals, pc, sealed

vars == <<env, build, session, wire, last, nseals, pc, sealed>>

SessionIds == {"snd", "rcv"}

\* 0xDEADBEEF and 0xCAFEBEEF, the addresses of the test sessions
Addr1 == U32(57005, 48879)

Addr2 == U32(51966, 48879)

LimbSamples == (0..Near) \cup ((65535 - Near)..65535)

HiSamples == {0, 1, 65535}

CounterSamples == {U32(h, l) : h \in HiSamples, l \in LimbSamples}

\* the counters both sessions start from in the "frames" environment
FrameCounters == {U32(0, 0), U32(65535, 1), u32_MAX}

PrimaryBuild == [codec |-> "rawframe", extended_mic |-> FALSE]

\* how the receiving session differs from the sending one
Peers == {"same", "other_address", "other_nwkskey", "other_appskey"}

Session(nwkskey, appskey, addr, up, down) ==
    [nwkskey |-> nwkskey, appskey |-> appskey, device_address |-> addr,
     frame_counter |-> [d \in Direction |-> IF d = "Uplink" THEN up ELSE down]]

Testolope == <<84, 101, 115, 116, 111, 108, 111, 112, 101>>

Text(n) == [i \in 1..n |-> Testolope[((i - 1) % 9) + 1]]

Plaintexts(e, b) ==
    {Text(n) : n \in 0..MaxLen}
    \cup (IF e = "lengths"
          THEN {Text(MAX_PAYLOAD_SIZE(b)), Text(MAX_PAYLOAD_SIZE(b) + 1)}
          ELSE {})

SealOpts(e, b) ==
    IF b.codec = "raw" \/ e # "frames" THEN {NoOpts}
    ELSE {NoOpts, [set |-> TRUE, frame_ctrl |-> 4, frame_port |-> 7]}

NoSession == Session("", "", U32(0, 0), U32(0, 0), U32(0, 0))

EmptyWire ==
    [full |-> FALSE, bytes |-> <<>>, d |-> "Uplink", frame_counter |-> U32(0, 0),
     plaintext |-> <<>>, sender |-> NoSession, opened |-> {}]

Region(b, pos, len) ==
    IF pos = 1 THEN "mhdr"
    ELSE IF pos <= 5 THEN "devaddr"
    ELSE IF pos > len - MIC_SIZE(b) THEN "mic"
    ELSE IF pos > HEADER_SIZE(b) THEN "payload"
    ELSE IF pos = HEADER_SIZE(b) THEN "fport"
    ELSE IF pos >= FCntAt(b) THEN "fcnt"
    ELSE "fctrl"

Input(kind, region, bytes) == [kind |-> kind, region |-> region, bytes |-> bytes]

\* a well-formed frame of concrete bytes for Addr1 with n zero payload bytes and a zero MIC
Forged(b, n) ==
    LET raw == set_address(RawFrame_new(b, Zeros(0)).val, Addr1)
    IN  raw.header \o Lift(Zeros(n)) \o raw.mic

\* the byte at an offset of the byte string handed to open, -1 where it has none
ByteAt(bytes, offset) == IF offset < Len(bytes) THEN bytes[offset + 1].v ELSE -1

\* the byte strings a caller hands to open
Inputs(e, b, w, s, d) ==
    (IF w.full THEN {Input("genuine", "none", w.bytes)} ELSE {})
    \cup (IF e = "frames"
          THEN {Input("empty", "none", <<>>),
                Input("short", "none", Lift(<<MHDR>> \o Zeros(HEADER_SIZE(b) + MIC_SIZE(b) - 2))),
                Input("forged", "none", Forged(b, 0)),
                Input("bad_mhdr", "none", [Forged(b, 0) EXCEPT ![1] = B(160)])}
          ELSE {})
    \cup (IF e = "lengths"
          THEN {Input("longest", "none", Forged(b, MAX_PAYLOAD_SIZE(b))),
                Input("too_long", "none", Forged(b, MAX_PAYLOAD_SIZE(b) + 1))}
          ELSE {})
    \cup (IF e = "frames" /\ w.full /\ Len(w.plaintext) <= MaxLen /\ s = "rcv" /\ d = w.d
          THEN {Input("truncated", "none", SubSeq(w.bytes, 1, Len(w.bytes) - 1))}
               \cup {Input("flip", Region(b, pos, Len(w.bytes)), FlipAt(w.bytes, pos, k)) :
                        pos \in 1..Len(w.bytes), k \in 0..7}
          ELSE {})

NoCall ==
    [op |-> "none", s |-> "snd", d |-> "Uplink", pre |-> NoSession,
     result |-> "ok", stage |-> "done", steps |-> <<>>, writes |-> 0,
     out |-> <<>>, frame_counter |-> U32(0, 0),
     input |-> [kind |-> "none", region |-> "none", len |-> 0, b0 |-> -1, b7 |-> -1],
     parsed |-> FALSE, addr_match |-> FALSE, again |-> FALSE]

InitSessions(a, c, peer) ==
    [s \in SessionIds |->
        IF s = "snd" THEN Session("nwk1", "app1", Addr1, a, c)
        ELSE Session(IF peer = "other_nwkskey" THEN "nwk2" ELSE "nwk1",
                     IF peer = "other_appskey" THEN "app2" ELSE "app1",
                     IF peer = "other_address" THEN Addr2 ELSE Addr1,
                     c, a)]

Init ==
    /\ \/ /\ env = "counters"
          /\ build = PrimaryBuild
          /\ \E a \in CounterSamples, c \in CounterSamples :
                session = InitSessions(a, c, "same")
       \/ /\ env = "lengths"
          /\ build \in Builds
          /\ session = InitSessions(U32(0, 0), U32(0, 0), "same")
       \/ /\ env = "frames"
          /\ build \in Builds
          /\ \E a \in FrameCounters, peer \in Peers : session = InitSessions(a, a, peer)
    /\ wire = EmptyWire
    /\ last = NoCall
    /\ nseals = 0
    /\ pc = "idle"
    /\ sealed = <<>>

\* the number of seals of a run: two more in the environment "reuse", which is
\* about the frames that follow one another
SealLimit(e) == IF e = "reuse" THEN MaxSeals + 2 ELSE MaxSeals

\* what a sealed frame was keyed with: the session, the direction and the counter of
\* the seal, and bytes 0-13 of the block 0 that went into the MIC of the frame
Context(s, d, frame_counter, out) ==
    [s |-> s, d |-> d, frame_counter |-> frame_counter,
     block0 |-> UNION {{SubSeq(k.input, 1, 14) : k \in out[i].ks} :
                          i \in (Len(out) - 3)..Len(out)}]

\* seal(session[s], d, plaintext)
Seal(s, d, plaintext, opts) ==
    LET r == pack(build, session[s], d, plaintext, opts)
    IN  /\ pc = "idle"
        /\ nseals < SealLimit(env)
        /\ session' = [session EXCEPT ![s] = r.session]
        /\ wire' = IF r.result = "ok"
                   THEN [full |-> TRUE, bytes |-> r.out, d |-> d,
                         frame_counter |-> r.frame_counter, plaintext |-> plaintext,
                         sender |-> session[s], opened |-> {}]
                   ELSE wire
        /\ last' = [op |-> "seal", s |-> s, d |-> d, pre |-> session[s],
                    result |-> r.result, stage |-> r.stage, steps |-> r.steps,
                    writes |-> r.writes, out |-> <<>>, frame_counter |-> r.frame_counter,
                    input |-> [kind |-> "plaintext", region |-> "none", len |-> Len(plaintext),
                               b0 |-> -1, b7 |-> -1],
                    parsed |-> FALSE, addr_match |-> FALSE, again |-> FALSE]
        /\ nseals' = nseals + 1
        /\ sealed' = IF r.result = "ok" /\ env = "reuse"
                      THEN Append(sealed, Context(s, d, r.frame_counter, r.out))
                      ELSE sealed
        /\ pc' = "returned"
        /\ UNCHANGED <<env, build>>

\* open(session[s], d, inp.bytes)
Open(s, d, inp) ==
    LET r == unpack(build, session[s], d, inp.bytes)
        parsed == RawFrame_parse(build, inp.bytes)
    IN  /\ pc = "idle"
        /\ session' = [session EXCEPT ![s] = r.session]
        /\ wire' = IF r.result = "ok" /\ inp.kind = "genuine"
                   THEN [wire EXCEPT !.opened = @ \cup {s}]
                   ELSE wire
        /\ last' = [op |-> "open", s |-> s, d |-> d, pre |-> session[s],
                    result |-> r.result, stage |-> r.stage, steps |-> r.steps,
                    writes |-> r.writes, out |-> r.out, frame_counter |-> r.frame_counter,
                    input |-> [kind |-> inp.kind, region |-> inp.region,
                               len |-> Len(inp.bytes),
                               b0 |-> ByteAt(inp.bytes, 0), b7 |-> ByteAt(inp.bytes, 7)],
                    parsed |-> parsed.some,
                    addr_match |-> parsed.some
                                   /\ SubSeq(parsed.val.header, 2, 5)
                                          = Lift(u32_to_le_bytes(session[s].device_address)),
                    again |-> inp.kind = "genuine" /\ s \in wire.opened]
        /\ pc' = "returned"
        /\ UNCHANGED <<env, build, nseals, sealed>>

\* the caller has looked at the outcome of its call
Return ==
    /\ pc = "returned"
    /\ pc' = "idle"
    /\ last' = NoCall
    /\ UNCHANGED <<env, build, session, wire, nseals, sealed>>

Sealers == {"snd"}

Openers == SessionIds

Next ==
    \/ /\ pc = "idle" /\ nseals < MaxSeals
       /\ \E s \in Sealers, d \in Direction, plaintext \in Plaintexts(env, build),
             opts \in SealOpts(env, build) : Seal(s, d, plaintext, opts)
    \/ /\ pc = "idle"
       /\ \E s \in Openers, d \in Direction :
             \E inp \in Inputs(env, build, wire, s, d) : Open(s, d, inp)
    \/ Return

Spec == Init /\ [][Next]_vars

(***************************************************************************)
(* Frames that follow one another: either session seals, up to             *)
(* SealLimit("reuse") frames in all, and either session opens the frame    *)
(* sealed last, so that a session's counter is advanced by its own seals   *)
(* and by the frames it opens.  The frames sealed so far are recorded.     *)
(***************************************************************************)
ReuseCounters == {U32(0, 0), U32(0, 65535), U32(65535, 65534)}

ReuseInit ==
    /\ env = "reuse"
    /\ build = PrimaryBuild
    /\ \E a \in ReuseCounters : session = InitSessions(a, a, "same")
    /\ wire = EmptyWire
    /\ last = NoCall
    /\ nseals = 0
    /\ pc = "idle"
    /\ sealed = <<>>

ReuseNext ==
    \/ /\ pc = "idle"
       /\ \E s \in SessionIds, d \in Direction, plaintext \in Plaintexts(env, build) :
             Seal(s, d, plaintext, NoOpts)
    \/ /\ pc = "idle"
       /\ \E s \in Openers, d \in Direction :
             \E inp \in Inputs(env, build, wire, s, d) : Open(s, d, inp)
    \/ Return

ReuseSpec == ReuseInit /\ [][ReuseNext]_vars

(***************************************************************************)
(* The codec and the crypto wrappers called on their own, as the unit      *)
(* tests call them (tests/crypto_mic.rs, tests/crypto_stream.rs): a caller *)
(* parses a byte string, serializes a raw frame, computes or verifies a    *)
(* MIC, or applies the keystream to a buffer, and looks at the outcome.    *)
(* The byte strings and the buffers have the lengths around the limits of  *)
(* the operation and the lengths 0..MaxLen above its lower limit.          *)
(***************************************************************************)
\* L bytes, all different from their neighbours; fixed = "both" puts MHDR at offset 0
\* and FPORT at offset 7, "mhdr" only MHDR at offset 0, "none" neither
Pattern(fixed, L) ==
    [i \in 1..L |-> IF i = 1 /\ fixed # "none" THEN B(MHDR)
                    ELSE IF i = 8 /\ fixed = "both" THEN B(FPORT)
                    ELSE B((7 * i) % 256)]

ParseLengths(b) ==
    {0, 1, 12, HEADER_SIZE(b) + MIC_SIZE(b) - 1}
    \cup {HEADER_SIZE(b) + MIC_SIZE(b) + n : n \in 0..MaxLen}
    \cup {MAX_MESSAGE_SIZE - 1, MAX_MESSAGE_SIZE, MAX_MESSAGE_SIZE + 1}

\* the raw frames a caller builds: RawFrame::new, then the setters, then a MIC
RawFrames(b) ==
    {[set_frame_counter_lsbs(b, set_address(RawFrame_new(b, Text(n)).val, a), l)
        EXCEPT !.mic = [i \in 1..MIC_SIZE(b) |-> B(200 + i)]] :
        n \in (0..MaxLen) \cup {MAX_PAYLOAD_SIZE(b)},
        a \in {Addr1, Addr2},
        l \in {0, 513, 65535}}

\* header and payload lengths of a MIC call: a 4-byte header as in tests/crypto_mic.rs
\* or a frame header, payloads up to and beyond the total of 255
MicLengths(b) ==
    {<<hl, pl>> : hl \in {4, HEADER_SIZE(b)}, pl \in 0..MaxLen}
    \cup {<<hl, 255 - hl + n>> : hl \in {4, HEADER_SIZE(b)}, n \in 0..1}

\* buffer lengths of a keystream call: the first blocks and the last permitted one
StreamLengths == (0..MaxLen) \cup {16, 17, 255 * 16, 255 * 16 + 1}

UnitCall(op, args, result) == [op |-> op, args |-> args, result |-> result]

UnitInit ==
    /\ env = "unit"
    /\ build \in Builds
    /\ session = InitSessions(U32(0, 0), U32(0, 0), "same")
    /\ wire = EmptyWire
    /\ last = NoCall
    /\ nseals = 0
    /\ pc = "idle"
    /\ sealed = <<>>

UnitReturn(call) ==
    /\ pc = "idle"
    /\ last' = call
    /\ pc' = "returned"
    /\ UNCHANGED <<env, build, session, wire, nseals, sealed>>

\* RawFrame::parse(frame)
Parse(fixed, L) ==
    LET frame == Pattern(fixed, L)
    IN  UnitReturn(UnitCall("parse", [fixed |-> fixed, frame |-> frame],
                            RawFrame_parse(build, frame)))

\* raw.into_frame()
IntoFrame(raw) ==
    UnitReturn(UnitCall("into_frame", [raw |-> raw], into_frame(build, raw)))

\* AesCmacBuilder ... .compute(header, payload)
Compute(d, hl, pl) ==
    UnitReturn(UnitCall("compute", [d |-> d, hl |-> hl, pl |-> pl],
                        compute(build, "nwk1", d, Addr1, U32(0, 0),
                                Pattern("none", hl), Pattern("none", pl))))

\* AesCmacBuilder ... .verify(header, payload, expected_mic), with the MIC that
\* compute returns for the message where it returns one, or a zero MIC
Verify(d, hl, pl, right) ==
    LET header  == Pattern("none", hl)
        payload == Pattern("none", pl)
        mic     == compute(build, "nwk1", d, Addr1, U32(0, 0), header, payload)
        expected_mic == IF right /\ mic.some THEN mic.val ELSE Lift(Zeros(MIC_SIZE(build)))
    IN  UnitReturn(UnitCall("verify",
                            [d |-> d, hl |-> hl, pl |-> pl, right |-> right /\ mic.some],
                            verify_call(build, "nwk1", d, Addr1, U32(0, 0),
                                        header, payload, expected_mic)))

\* AesCtrBuilder ... .apply(data)
Apply(d, addr, frame_counter, L) ==
    UnitReturn(UnitCall("apply",
                        [d |-> d, addr |-> addr, frame_counter |-> frame_counter, len |-> L],
                        apply("app1", d, addr, frame_counter, Lift(Text(L)))))

\* Self::recover_frame_counter(frame_counter_lsbs, next_frame_counter)
Recover(frame_counter_lsbs_, next_frame_counter) ==
    UnitReturn(UnitCall("recover",
                        [lsbs |-> frame_counter_lsbs_, next |-> next_frame_counter],
                        recover_frame_counter(frame_counter_lsbs_, next_frame_counter)))

\* the mutators of a raw frame and a value for each: set_frame_ctrl and set_frame_port
\* are those of rawframe.rs
Setters(b) ==
    {"set_address", "set_frame_counter_lsbs", "mic_mut"}
    \cup (IF b.codec = "rawframe" THEN {"set_frame_ctrl", "set_frame_port"} ELSE {})

\* raw.set_address(..), raw.set_frame_counter_lsbs(..), *raw.mic_mut() = ..,
\* raw.set_frame_ctrl(..) or raw.set_frame_port(..)
Mutate(raw, setter) ==
    UnitReturn(UnitCall("set", [raw |-> raw, setter |-> setter],
        CASE setter = "set_address"            -> set_address(raw, U32(258, 772))
          [] setter = "set_frame_counter_lsbs" -> set_frame_counter_lsbs(build, raw, 1541)
          [] setter = "mic_mut"                -> set_mic(raw, Lift([i \in 1..MIC_SIZE(build) |-> 9]))
          [] setter = "set_frame_ctrl"         -> set_frame_ctrl(raw, 4)
          [] OTHER                             -> set_frame_port(raw, 7)))

UnitNext ==
    \/ /\ pc = "idle"
       /\ \E fixed \in {"both", "mhdr", "none"}, L \in ParseLengths(build) : Parse(fixed, L)
    \/ /\ pc = "idle"
       /\ \E raw \in RawFrames(build) : IntoFrame(raw)
    \/ /\ pc = "idle"
       /\ \E d \in Direction, l \in MicLengths(build) : Compute(d, l[1], l[2])
    \/ /\ pc = "idle"
       /\ \E d \in Direction, l \in MicLengths(build), right \in BOOLEAN :
             Verify(d, l[1], l[2], right)
    \/ /\ pc = "idle"
       /\ \E d \in Direction, addr \in {Addr1, Addr2},
             frame_counter \in {U32(0, 0), U32(0, 1)}, L \in StreamLengths :
             Apply(d, addr, frame_counter, L)
    \/ /\ pc = "idle"
       /\ \E frame_counter_lsbs_ \in LimbSamples, next_frame_counter \in CounterSamples :
             Recover(frame_counter_lsbs_, next_frame_counter)
    \/ /\ pc = "idle"
       /\ \E raw \in RawFrames(build), setter \in Setters(build) : Mutate(raw, setter)
    \/ Return

UnitSpec == UnitInit /\ [][UnitNext]_vars

(***************************************************************************)
(* Properties.  `last` is the call that has just returned: the session it  *)
(* worked on as it was before the call (pre), its outcome, and what kind   *)
(* of bytes it was given.                                                  *)
(***************************************************************************)
OpenReturned == pc = "returned" /\ last.op = "open"

SealReturned == pc = "returned" /\ last.op = "seal"

\* frame_counter[d] before and after the call that has returned
Pre == last.pre.frame_counter[last.d]

Post == session[last.s].frame_counter[last.d]

\* a + 1 for a < 0xFFFF_FFFF
Succ32(a) == IF a.lo = 65535 THEN U32(a.hi + 1, 0) ELSE U32(a.hi, a.lo + 1)

SameCredentials(s1, s2) ==
    /\ s1.nwkskey = s2.nwkskey
    /\ s1.appskey = s2.appskey
    /\ s1.device_address = s2.device_address

\* open was given the sealed frame itself, in the direction it was sealed for, on a
\* session with the keys and the address of the sealing session
OpenedGenuine ==
    /\ OpenReturned
    /\ last.input.kind = "genuine"
    /\ last.d = wire.d
    /\ SameCredentials(last.pre, wire.sender)

\* C1: round trip.  Sealing a plaintext of a valid length on a session whose counter
\* is below 0xFFFF_FFFF succeeds, and opening the sealed bytes on a session with the
\* same keys and address whose counter of that direction equals the sealing counter
\* succeeds and returns exactly the plaintext.
RoundTrip ==
    /\ (SealReturned /\ Pre # u32_MAX /\ last.input.len <= MAX_PAYLOAD_SIZE(build))
          => (last.result = "ok" /\ wire.plaintext = Text(last.input.len))
    /\ (OpenedGenuine /\ Pre = wire.frame_counter)
          => (last.result = "ok" /\ last.out = Lift(wire.plaintext))

\* a plaintext of MAX_PAYLOAD_SIZE bytes has made the round trip
RoundTripOfLongestPlaintext ==
    /\ OpenedGenuine
    /\ Pre = wire.frame_counter
    /\ Len(wire.plaintext) = MAX_PAYLOAD_SIZE(build)
    /\ last.result = "ok"
    /\ last.out = Lift(wire.plaintext)

\* C2: replay resistance.  A frame sealed with counter c for direction d is rejected
\* by open in direction d on every session whose counter of that direction is greater
\* than c; in particular no session opens the same frame twice.
ReplayRejected ==
    /\ (OpenReturned /\ last.input.kind = "genuine" /\ last.d = wire.d
           /\ Lt32(wire.frame_counter, Pre))
          => last.result = "none"
    /\ (OpenReturned /\ last.again) => last.result = "none"

\* the session that has opened the frame is handed the frame once more
SecondOpenRejected ==
    /\ OpenedGenuine
    /\ last.again
    /\ Pre = Succ32(wire.frame_counter)
    /\ last.result = "none"
    /\ last.stage = "mic"

\* C3: a failed open leaves the session as it was.  Whatever makes open fail, the
\* sessions after the call equal the sessions before it and set_frame_counter has
\* not been called.
FailedOpenLeavesSession ==
    [][(pc = "idle" /\ last'.op = "open" /\ last'.result # "ok")
          => (session' = session /\ last'.writes = 0)]_vars

\* open has rejected a damaged frame at the MIC
DamagedFrameRejectedAtMic ==
    /\ OpenReturned
    /\ last.input.kind = "flip"
    /\ last.result = "none"
    /\ last.stage = "mic"
    /\ session[last.s] = last.pre

\* C4 as stated: every successful seal and every successful open leaves
\* frame_counter[d] at its value before the call plus exactly 1.
EverySuccessAdvancesByOne ==
    (pc = "returned" /\ last.op \in {"seal", "open"} /\ last.result = "ok")
       => Post = Succ32(Pre)

\* C4: every successful seal leaves frame_counter[d] at its value before the call plus
\* exactly 1; every successful open leaves it strictly greater than before the call,
\* and at that value plus exactly 1 if and only if the opened frame carries the
\* counter the session expected.
SuccessAdvancesCounter ==
    /\ (SealReturned /\ last.result = "ok") => Post = Succ32(Pre)
    /\ (OpenReturned /\ last.result = "ok")
          => /\ Lt32(Pre, Post)
             /\ (Post = Succ32(Pre)) <=> (last.frame_counter = Pre)

\* a successful open has advanced the counter by more than one step
OpenSkippedCounters ==
    /\ OpenedGenuine
    /\ last.result = "ok"
    /\ Lt32(Succ32(Pre), Post)

\* C5: after a successful open frame_counter[d] is the counter the frame was sealed
\* with plus 1, however far that is from the counter before the call; after a
\* successful seal it is the counter before the call plus 1 and the frame is sealed
\* under the counter before the call.
CounterAfterSuccess ==
    /\ (OpenReturned /\ last.result = "ok")
          => /\ last.input.kind = "genuine"
             /\ last.frame_counter = wire.frame_counter
             /\ Post = Succ32(wire.frame_counter)
    /\ (SealReturned /\ last.result = "ok")
          => /\ Post = Succ32(Pre)
             /\ LET r == unpack(build, last.pre, last.d, wire.bytes)
                IN  /\ r.result = "ok"
                    /\ r.frame_counter = Pre
                    /\ r.out = Lift(wire.plaintext)

\* a session at counter 1 has opened a frame sealed at 0x0001_0000 and is at 0x0001_0001
OpenAcrossWindow ==
    /\ OpenedGenuine
    /\ last.result = "ok"
    /\ Pre = U32(0, 1)
    /\ wire.frame_counter = U32(1, 0)
    /\ Post = U32(1, 1)

\* c = next + k for some 0 <= k < 2^16
Within64K(next, c) ==
    \/ c.hi = next.hi /\ c.lo >= next.lo
    \/ c.hi = next.hi + 1 /\ c.lo < next.lo

\* C6: counter gap window.  On a session whose counter is next, a frame sealed with
\* the same keys, address and direction under a counter c >= next opens if and only
\* if c - next < 2^16.
GapWindow ==
    (OpenedGenuine /\ Le32(Pre, wire.frame_counter))
       => (last.result = "ok" <=> Within64K(Pre, wire.frame_counter))

\* a frame sealed exactly 2^16 steps ahead has been rejected
RejectedAtWindowEnd ==
    /\ OpenedGenuine
    /\ wire.frame_counter = U32(Pre.hi + 1, Pre.lo)
    /\ last.result = "none"
    /\ last.stage = "mic"

\* open was given the sealed frame with one bit flipped, on a session that opens the
\* intact frame
OpenedDamaged ==
    /\ OpenReturned
    /\ last.input.kind = "flip"
    /\ unpack(build, last.pre, last.d, wire.bytes).result = "ok"

\* C7 as stated: a single flipped bit in the header, the ciphertext or the MIC makes
\* open fail on the matching session, and it fails at the MIC validation.
DamageFailsMic ==
    OpenedDamaged => (last.result = "none" /\ last.stage = "mic")

\* the step at which open rejects a frame with a bit flipped in the given region
\* when the recovered counter is fc
RejectingStage(b, region, fc) ==
    IF region = "mhdr" \/ (region = "fport" /\ b.codec = "raw") THEN "parse"
    ELSE IF region = "devaddr" THEN "address"
    ELSE IF region = "fcnt" /\ fc = u32_MAX THEN "reserved"
    ELSE "mic"

\* C7: a single flipped bit in the header, the ciphertext or the MIC makes open fail
\* on the matching session.  The failure is a MIC validation failure unless the bit
\* belongs to a field checked earlier: a flipped MHDR bit (or FPort bit, where FPort is
\* fixed) fails the parse, a flipped DevAddr bit fails the address check, a flipped
\* FCnt bit that makes the recovered counter 0xFFFF_FFFF fails the reserved-counter
\* check.
DamageRejected ==
    OpenedDamaged
       => /\ last.result = "none"
          /\ last.stage = RejectingStage(build, last.input.region, last.frame_counter)

\* a flipped FCnt bit has made the recovered counter the reserved one
DamageRejectedBeforeMic ==
    /\ OpenedDamaged
    /\ last.input.region = "fcnt"
    /\ last.result = "none"
    /\ last.stage = "reserved"

\* C8: direction binding.  A frame sealed for one direction does not open in the
\* other direction on a session with the same keys and address, whatever its
\* counters, and the session stays as it was.
DirectionBinding ==
    (OpenReturned /\ last.input.kind = "genuine" /\ last.d # wire.d
        /\ SameCredentials(last.pre, wire.sender))
       => (last.result = "none" /\ session[last.s] = last.pre)

\* the frame was rejected in the other direction although the counter of that
\* direction is the one the frame was sealed with
OtherDirectionRejected ==
    /\ OpenReturned
    /\ last.input.kind = "genuine"
    /\ last.d # wire.d
    /\ SameCredentials(last.pre, wire.sender)
    /\ Pre = wire.frame_counter
    /\ last.result = "none"
    /\ last.stage = "mic"

\* C9: address binding.  A frame that parses and whose DevAddr bytes are not the
\* session's device address is rejected by the address check, before the counter is
\* recovered, the MIC verified or the payload decrypted.
AddressBinding ==
    (OpenReturned /\ last.parsed /\ ~last.addr_match)
       => /\ last.result = "none"
          /\ last.stage = "address"
          /\ last.steps = <<"parse", "address">>
          /\ session[last.s] = last.pre

\* a session that differs from the sealing one in the address only has rejected the
\* frame
OtherAddressRejected ==
    /\ OpenReturned
    /\ last.input.kind = "genuine"
    /\ last.d = wire.d
    /\ last.pre.nwkskey = wire.sender.nwkskey
    /\ last.pre.appskey = wire.sender.appskey
    /\ last.pre.device_address # wire.sender.device_address
    /\ Pre = wire.frame_counter
    /\ last.result = "none"
    /\ last.stage = "address"

\* C10: seal on an exhausted session.  When frame_counter[d] is 0xFFFF_FFFF, seal in
\* direction d panics, no frame comes out and the sessions stay as they were.
ExhaustedSealPanics ==
    [][(pc = "idle" /\ last'.op = "seal"
           /\ session[last'.s].frame_counter[last'.d] = u32_MAX)
          => (last'.result = "panic" /\ session' = session /\ wire' = wire)]_vars

\* seal has panicked at the increment of an exhausted counter
SealPanickedExhausted ==
    /\ SealReturned
    /\ Pre = u32_MAX
    /\ last.input.len <= MAX_PAYLOAD_SIZE(build)
    /\ last.result = "panic"
    /\ last.stage = "exhausted"
    /\ ~wire.full

\* C11: terminal state.  Once frame_counter[d] of a session is 0xFFFF_FFFF it stays
\* 0xFFFF_FFFF, and no seal or open of that session in direction d succeeds: seal
\* panics, and open never gets as far as the MIC, since every frame that parses and
\* is addressed to the session recovers to the reserved counter.
ExhaustedIsTerminal ==
    [][/\ \A s \in SessionIds, d \in Direction :
             session[s].frame_counter[d] = u32_MAX
                => session'[s].frame_counter[d] = u32_MAX
       /\ (pc = "idle" /\ last'.op \in {"seal", "open"}
              /\ session[last'.s].frame_counter[last'.d] = u32_MAX)
             => /\ last'.result # "ok"
                /\ last'.writes = 0
                /\ last'.op = "open" => last'.stage \in {"parse", "address", "reserved"}
                /\ (last'.op = "open" /\ last'.parsed /\ last'.addr_match)
                      => (last'.stage = "reserved" /\ last'.frame_counter = u32_MAX)]_vars

\* the session that has opened the last permitted frame is handed the frame again
ReplayOnExhaustedRejected ==
    /\ OpenedGenuine
    /\ last.again
    /\ wire.frame_counter = U32(65535, 65534)
    /\ Pre = u32_MAX
    /\ last.result = "none"
    /\ last.stage = "reserved"
    /\ Post = u32_MAX

\* C12: the reserved counter.  No frame is sealed or accepted under the counter
\* 0xFFFF_FFFF; an operation leaves 0xFFFF_FFFF in frame_counter[d] by a write only
\* after it has sealed or opened a frame whose counter is 0xFFFF_FFFE; the add of
\* open never saturates: the counter after a successful open is the frame's counter
\* plus 1 without saturation.
ReservedNeverUsed ==
    /\ (pc = "returned" /\ last.op \in {"seal", "open"} /\ last.result = "ok")
          => /\ last.frame_counter # u32_MAX
             /\ wire.full /\ wire.frame_counter # u32_MAX
             /\ Post = Succ32(last.frame_counter)
    /\ (pc = "returned" /\ last.op \in {"seal", "open"} /\ last.writes > 0
           /\ Post = u32_MAX)
          => (last.result = "ok" /\ last.frame_counter = U32(65535, 65534))

\* the last permitted frame has been opened and has left the reserved counter
LastFrameOpened ==
    /\ OpenedGenuine
    /\ last.result = "ok"
    /\ last.frame_counter = U32(65535, 65534)
    /\ Lt32(Pre, last.frame_counter)
    /\ Post = u32_MAX

\* C13: counter monotonicity.  Over any sequence of seal and open calls, successful
\* or not, no frame counter of any session ever decreases.
CountersNeverDecrease ==
    [][\A s \in SessionIds, d \in Direction :
          Le32(session[s].frame_counter[d], session'[s].frame_counter[d])]_vars

\* the sealing session, its counter advanced by the seal, is handed its own frame,
\* rejects it and keeps the counter
CounterKeptAfterFailure ==
    /\ OpenReturned
    /\ last.input.kind = "genuine"
    /\ last.s = "snd"
    /\ last.d = wire.d
    /\ last.result = "none"
    /\ Pre = Succ32(wire.frame_counter)
    /\ Post = Pre

\* C14: frame of an operation.  A seal or open of session s in direction d changes
\* nothing of any session but frame_counter[d] of s (not the counter of the other
\* direction, not the keys, not the address), by at most one set_frame_counter call.
OnlyOwnCounterWritten ==
    [][(pc = "idle" /\ last'.op \in {"seal", "open"})
          => /\ last'.writes \in {0, 1}
             /\ last'.writes = 0 => session' = session
             /\ session' = [session EXCEPT ![last'.s].frame_counter[last'.d] =
                                session'[last'.s].frame_counter[last'.d]]]_vars

\* a seal has advanced its direction's counter away from the other direction's
OtherDirectionKept ==
    /\ SealReturned
    /\ last.result = "ok"
    /\ last.writes = 1
    /\ \E e \in Direction \ {last.d} :
          /\ last.pre.frame_counter[e] = Pre
          /\ session[last.s].frame_counter[e] = Pre
          /\ Post = Succ32(Pre)


(***************************************************************************)
(* Codec and crypto wrappers, checked under UnitSpec.                      *)
(***************************************************************************)
UnitReturned(op) == pc = "returned" /\ env = "unit" /\ last.op = op

\* C15 as the specification states it: a byte string with the fixed header bytes and
\* at least 12 bytes is accepted and split into its first 8 bytes, its last 4 bytes
\* and the bytes between; a shorter one is rejected
ParseSplitsAt8And4 ==
    UnitReturned("parse") /\ last.args.fixed = "both" =>
        LET frame == last.args.frame
            L     == Len(frame)
        IN  /\ L < 12 => ~last.result.some
            /\ L >= 12 =>
                /\ last.result.some
                /\ last.result.val.header = SubSeq(frame, 1, 8)
                /\ last.result.val.payload = SubSeq(frame, 9, L - 4)
                /\ last.result.val.mic = SubSeq(frame, L - 3, L)

\* C15 (amended): parse accepts a byte string with the fixed header bytes and a length
\* of HEADER_SIZE + MIC_SIZE up to MAX_MESSAGE_SIZE, and splits it into the header
\* (its first HEADER_SIZE bytes), the mic (its last MIC_SIZE bytes) and the payload
\* (the bytes between); a byte string shorter than HEADER_SIZE + MIC_SIZE is rejected
ParseSplits ==
    UnitReturned("parse") /\ last.args.fixed = "both" =>
        LET frame == last.args.frame
            L     == Len(frame)
            H     == HEADER_SIZE(build)
            M     == MIC_SIZE(build)
        IN  /\ L < H + M => ~last.result.some
            /\ L >= H + M /\ L <= MAX_MESSAGE_SIZE =>
                /\ last.result.some
                /\ Len(last.result.val.header) = H
                /\ \A i \in 1..H : last.result.val.header[i] = frame[i]
                /\ Len(last.result.val.payload) = L - H - M
                /\ \A i \in 1..(L - H - M) : last.result.val.payload[i] = frame[H + i]
                /\ Len(last.result.val.mic) = M
                /\ \A i \in 1..M : last.result.val.mic[i] = frame[L - M + i]

\* parse has returned a frame with a payload
ParsedWithPayload ==
    /\ UnitReturned("parse")
    /\ last.args.fixed = "both"
    /\ Len(last.args.frame) > HEADER_SIZE(build) + MIC_SIZE(build)
    /\ last.result.some
    /\ Len(last.result.val.payload) > 0


(***************************************************************************)
(* The fixed header bytes, checked under Spec.                             *)
(***************************************************************************)
\* open has found no frame in its input and has left the session as it was
Unparseable ==
    /\ ~last.parsed
    /\ last.result = "none"
    /\ last.stage = "parse"
    /\ last.writes = 0
    /\ session[last.s] = last.pre

\* C16 as the specification states it: an input whose byte at offset 0 is not 0xE0 or
\* whose byte at offset 7 is not 0x01 is unparseable, whatever the codec
FixedBytesAt0And7 ==
    OpenReturned /\ (last.input.b0 # MHDR \/ last.input.b7 # FPORT) => Unparseable

\* C16 (amended): an input whose byte at offset 0 is not 0xE0 is unparseable; so is,
\* for the 8-byte header of raw.rs, an input whose byte at offset 7 is not 0x01: open
\* returns nothing and the session is unchanged.  (With the 9-byte header of
\* rawframe.rs the byte at offset 7 is the high byte of FCnt and has no fixed value.)
FixedHeaderBytes ==
    OpenReturned /\ (last.input.b0 # MHDR \/ (build.codec = "raw" /\ last.input.b7 # FPORT))
        => Unparseable

\* open has rejected a frame of full length that differs from a sealed frame in its
\* FPORT byte only
BadFportRejected ==
    /\ OpenReturned
    /\ build.codec = "raw"
    /\ last.input.kind = "flip"
    /\ last.input.b0 = MHDR
    /\ last.input.b7 # FPORT
    /\ last.input.len >= HEADER_SIZE(build) + MIC_SIZE(build)
    /\ last.result = "none"


(***************************************************************************)
(* Size limits, checked under Spec.                                        *)
(***************************************************************************)
\* C17 as the specification states it: seal accepts every plaintext of at most 244
\* bytes, its output has 8 + N + 4 bytes and between 12 and 256 bytes; parse rejects a
\* frame whose payload part has more than 244 bytes
SizeLimits256And244 ==
    /\ SealReturned /\ last.input.len <= 244 /\ Pre # u32_MAX =>
          /\ last.result = "ok"
          /\ Len(wire.bytes) = 8 + last.input.len + 4
          /\ Len(wire.bytes) >= 12
          /\ Len(wire.bytes) <= 256
    /\ OpenReturned /\ last.input.len - 8 - 4 > 244 => ~last.parsed

\* C17 (amended): MAX_MESSAGE_SIZE is 255 and MAX_PAYLOAD_SIZE is MAX_MESSAGE_SIZE less
\* the codec's HEADER_SIZE and MIC_SIZE (239, 242 or 238); seal with a counter that is
\* not exhausted accepts every plaintext of at most MAX_PAYLOAD_SIZE bytes, and its
\* output has HEADER_SIZE + N + MIC_SIZE bytes, at least HEADER_SIZE + MIC_SIZE and at
\* most 255; seal panics on a longer plaintext and leaves the session as it was; parse
\* rejects a frame whose payload part has more than MAX_PAYLOAD_SIZE bytes
SizeLimits ==
    LET H == HEADER_SIZE(build)
        M == MIC_SIZE(build)
    IN  /\ MAX_MESSAGE_SIZE = 255
        /\ MAX_PAYLOAD_SIZE(build) = MAX_MESSAGE_SIZE - H - M
        /\ MAX_PAYLOAD_SIZE(build) \in {239, 242, 238}
        /\ SealReturned /\ last.input.len <= MAX_PAYLOAD_SIZE(build) /\ Pre # u32_MAX =>
              /\ last.result = "ok"
              /\ wire.full
              /\ Len(wire.bytes) = H + last.input.len + M
              /\ Len(wire.bytes) >= H + M
              /\ Len(wire.bytes) <= MAX_MESSAGE_SIZE
        /\ SealReturned /\ last.input.len > MAX_PAYLOAD_SIZE(build) =>
              /\ last.result = "panic"
              /\ last.stage = "payload"
              /\ session[last.s] = last.pre
        /\ OpenReturned /\ last.input.len - H - M > MAX_PAYLOAD_SIZE(build) =>
              /\ ~last.parsed
              /\ last.result = "none"
              /\ session[last.s] = last.pre

\* seal has returned a frame of MAX_MESSAGE_SIZE bytes for a plaintext of
\* MAX_PAYLOAD_SIZE bytes
SealedLongestPlaintext ==
    /\ SealReturned
    /\ last.input.len = MAX_PAYLOAD_SIZE(build)
    /\ last.result = "ok"
    /\ Len(wire.bytes) = MAX_MESSAGE_SIZE


(***************************************************************************)
(* Codec round trip, checked under UnitSpec.                               *)
(***************************************************************************)
\* the values of the header bytes at the 0-based offsets from..to
HeaderValues(raw, from, to) == [i \in 1..(to - from + 1) |-> raw.header[from + i].v]

\* parse and serialize are inverse to each other on what parse accepts and on the
\* raw frames a caller can build
ParseInvertsSerialize ==
    /\ UnitReturned("parse") /\ last.result.some =>
          LET frame == into_frame(build, last.result.val)
          IN  frame.some /\ frame.val = last.args.frame
    /\ UnitReturned("into_frame") =>
          LET raw == last.args.raw
              f   == RawFrame_parse(build, last.result.val)
          IN  /\ last.result.some
              /\ last.result.val = raw.header \o raw.payload \o raw.mic
              /\ f.some
              /\ f.val.header = raw.header
              /\ f.val.payload = raw.payload
              /\ f.val.mic = raw.mic

\* C18 as the specification states it: the serialized frame has 8 + payload_len + 4
\* bytes, parse and serialize are inverse to each other, and address() and
\* frame_counter_lsbs() are the little-endian values at header bytes 1-4 and 5-6
CodecRoundTripAt8And4 ==
    /\ ParseInvertsSerialize
    /\ UnitReturned("into_frame") =>
          LET raw == last.args.raw
          IN  /\ Len(last.result.val) = 8 + Len(raw.payload) + 4
              /\ HeaderValues(raw, 1, 4) = u32_to_le_bytes(address(raw))
              /\ HeaderValues(raw, 5, 6) = u16_to_le_bytes(frame_counter_lsbs(build, raw))

\* C18 (amended): serialize emits header || payload[0..payload_len] || mic with total
\* length HEADER_SIZE + payload_len + MIC_SIZE; serialize(parse(b)) = b for every b
\* that parse accepts; parse(serialize(f)) has the header, payload and mic of f for
\* every raw frame f; address() is the little-endian value at header bytes 1-4, and
\* frame_counter_lsbs() the little-endian value at header bytes 5-6 (raw.rs) or 6-7
\* (rawframe.rs, where byte 5 is FCtrl)
CodecRoundTrip ==
    /\ ParseInvertsSerialize
    /\ UnitReturned("into_frame") =>
          LET raw  == last.args.raw
              fcnt == IF build.codec = "raw" THEN 5 ELSE 6
          IN  /\ Len(last.result.val) = HEADER_SIZE(build) + Len(raw.payload) + MIC_SIZE(build)
              /\ address(raw) \in {Addr1, Addr2}
              /\ HeaderValues(raw, 1, 4) = u32_to_le_bytes(address(raw))
              /\ frame_counter_lsbs(build, raw) \in {0, 513, 65535}
              /\ HeaderValues(raw, fcnt, fcnt + 1)
                     = u16_to_le_bytes(frame_counter_lsbs(build, raw))

\* a raw frame with a payload and the frame counter bytes 01 02 has been serialized
SerializedWithPayload ==
    /\ UnitReturned("into_frame")
    /\ last.result.some
    /\ Len(last.args.raw.payload) > 0
    /\ frame_counter_lsbs(build, last.args.raw) = 513
    /\ RawFrame_parse(build, last.result.val).some


(***************************************************************************)
(* Length guards of the MIC and of the keystream, checked under UnitSpec.  *)
(***************************************************************************)
\* C19: when len(header) + len(payload) > 255, verify returns false after looking at
\* the length only (no block 0, no CMAC) and compute panics; when the total is at most
\* 255, compute returns a MIC, byte 15 of the block 0 that went into the CMAC is the
\* total, and verify accepts exactly the MIC that compute returns
MicLengthGuard ==
    /\ UnitReturned("compute") =>
          LET total == last.args.hl + last.args.pl
          IN  /\ total > 255 => ~last.result.some
              /\ total <= 255 =>
                    /\ last.result.some
                    /\ \A i \in 1..Len(last.result.val) : \A k \in last.result.val[i].ks :
                          /\ Len(k.input) = 16 + total
                          /\ k.input[16].v = total
    /\ UnitReturned("verify") =>
          LET total == last.args.hl + last.args.pl
          IN  /\ total > 255 =>
                    /\ last.result.result = "false"
                    /\ last.result.steps = <<"total_length">>
              /\ total <= 255 =>
                    /\ last.result.steps = <<"total_length", "cmac", "block0", "verify_truncated_left">>
                    /\ last.result.result = (IF last.args.right THEN "true" ELSE "false")

\* verify has returned false for a message of 256 bytes
VerifyRejectedTooLong ==
    /\ UnitReturned("verify")
    /\ last.args.hl + last.args.pl = 256
    /\ last.result.result = "false"


\* the counter blocks whose keystream went into a buffer, taken from the first byte
\* of each 16-byte block of the buffer
CounterBlocks(out) ==
    {(CHOOSE k \in out[16 * j + 1].ks : TRUE).input : j \in 0..((Len(out) - 1) \div 16)}

\* the messages whose keystream that of the returned call must not meet
OtherMessages ==
    {m \in [d : Direction, addr : {Addr1, Addr2}, frame_counter : {U32(0, 0), U32(0, 1)}] :
        \/ m.d # last.args.d
        \/ m.addr # last.args.addr
        \/ m.frame_counter # last.args.frame_counter}

StreamSelfInverse ==
    UnitReturned("apply") /\ last.args.len <= 255 * 16 =>
        LET data  == Lift(Text(last.args.len))
            again == apply("app1", last.args.d, last.args.addr, last.args.frame_counter,
                           last.result.val)
        IN  /\ last.result.some
            /\ Len(last.result.val) = last.args.len
            /\ last.args.len > 0 => last.result.val # data
            /\ again.some
            /\ Len(again.val) = last.args.len
            /\ again.val = data

\* a buffer of two blocks has been encrypted, and the second application restores it
AppliedTwice ==
    /\ UnitReturned("apply")
    /\ last.args.len = 17
    /\ last.result.some
    /\ last.result.val # Lift(Text(17))
    /\ apply("app1", last.args.d, last.args.addr, last.args.frame_counter,
             last.result.val).val = Lift(Text(17))


(***************************************************************************)
(* What a caller learns from a failed open, checked under Spec.            *)
(***************************************************************************)
\* C22 as the specification states it: every failed open is observed as a MIC mismatch
\* is observed, by the value returned and by the call that returns it
FailuresObservedAlike ==
    OpenReturned /\ last.result # "ok" =>
        Observed(last.result, last.stage) = Observed("none", "mic")

\* C22 (amended): every failed open returns None and no plaintext; a frame that is not
\* addressed to the session, carries the reserved counter or fails the MIC is reported
\* by unpack, all three alike; bytes that do not parse are reported one call earlier,
\* by set_frame
FailuresObserved ==
    OpenReturned /\ last.result # "ok" =>
        /\ last.result = "none"
        /\ last.out = <<>>
        /\ last.stage \in {"parse", "address", "reserved", "mic"}
        /\ Observed(last.result, last.stage)
              = [call |-> IF last.parsed THEN "unpack" ELSE "set_frame", value |-> "None"]

\* a frame with a wrong MHDR has been rejected by set_frame
MalformedReportedBySetFrame ==
    /\ OpenReturned
    /\ last.input.kind = "bad_mhdr"
    /\ ~last.parsed
    /\ Observed(last.result, last.stage) = [call |-> "set_frame", value |-> "None"]


(***************************************************************************)
(* Failure of seal, checked under Spec.                                    *)
(***************************************************************************)
\* C23: seal with a plaintext of more than MAX_PAYLOAD_SIZE bytes panics when the raw
\* frame is constructed, before the keystream is applied or the MIC computed, and
\* without a write to the session: both frame counters are as they were
OversizedSealPanics ==
    SealReturned /\ last.input.len > MAX_PAYLOAD_SIZE(build) =>
        /\ last.result = "panic"
        /\ last.stage = "payload"
        /\ \A i \in 1..Len(last.steps) : last.steps[i] \in {"read_session", "new"}
        /\ last.writes = 0
        /\ \A d \in Direction :
              session[last.s].frame_counter[d] = last.pre.frame_counter[d]
        /\ session[last.s] = last.pre

\* seal has panicked on a plaintext of MAX_PAYLOAD_SIZE + 1 bytes
OversizedSealPanicked ==
    /\ SealReturned
    /\ last.input.len = MAX_PAYLOAD_SIZE(build) + 1
    /\ last.result = "panic"
    /\ last.stage = "payload"


(***************************************************************************)
(* Frame-counter recovery, checked under UnitSpec.                         *)
(***************************************************************************)
\* the upper halves around that of a counter, and the first and the last one
Windows(a) == {h \in 0..65535 : h >= a.hi - 2 /\ h <= a.hi + 2} \cup {0, 65535}

\* r is the smallest 32-bit value >= next whose low 16 bits are lsbs (a value with
\* these low bits is U32(h, lsbs) for an upper half h; the upper halves more than one
\* below that of next give values below next)
SmallestFrom(r, lsbs, next) ==
    /\ r.lo = lsbs
    /\ Le32(next, r)
    /\ \A h \in Windows(next) \cup Windows(r) :
          Le32(next, U32(h, lsbs)) => Le32(r, U32(h, lsbs))

\* C24 as the specification states it: for every lsbs and next the recovered counter
\* is the smallest 32-bit value >= next whose low 16 bits are lsbs
RecoversSmallest ==
    UnitReturned("recover") => SmallestFrom(last.result, last.args.lsbs, last.args.next)

\* C24 (amended): the recovered counter is the smallest 32-bit value >= next whose low
\* 16 bits are lsbs where there is such a value; where there is none (next is in the
\* last window and its low 16 bits are above lsbs) it is 0xFFFF_FFFF
RecoversSmallestOrReserved ==
    UnitReturned("recover") =>
        IF Le32(last.args.next, U32(65535, last.args.lsbs))
        THEN SmallestFrom(last.result, last.args.lsbs, last.args.next)
        ELSE last.result = u32_MAX

\* a counter of the next window has been recovered
RecoveredInNextWindow ==
    /\ UnitReturned("recover")
    /\ last.args.lsbs < last.args.next.lo
    /\ last.args.next.hi < 65535
    /\ last.result = U32(last.args.next.hi + 1, last.args.lsbs)

\* C25: the recovered counter is never below the session's next frame counter, and it
\* does not wrap around: it is less than 2^16 above next, or it is 0xFFFF_FFFF
RecoveredAtOrAboveNext ==
    UnitReturned("recover") =>
        /\ Le32(last.args.next, last.result)
        /\ \/ last.result = u32_MAX
           \/ /\ last.result.hi <= last.args.next.hi + 1
              /\ last.result.hi = last.args.next.hi + 1 => last.result.lo < last.args.next.lo

\* the recovery has saturated at 0xFFFF_FFFF in the last window
RecoverySaturated ==
    /\ UnitReturned("recover")
    /\ last.args.next.hi = 65535
    /\ last.args.lsbs < last.args.next.lo
    /\ last.result = u32_MAX


(***************************************************************************)
(* Order of the steps of open and seal, checked under Spec.                *)
(***************************************************************************)
\* the steps of a call are the first steps of an order
StepsFollow(order) ==
    /\ Len(last.steps) <= Len(order)
    /\ last.steps = SubSeq(order, 1, Len(last.steps))

\* C26: the steps of open are, in this order, the address check, the recovery of the
\* counter with the check for the reserved value, the verification of the MIC, the
\* decryption and the write of the counter; the MIC that is verified is one over the
\* header and the encrypted payload as they are on the wire; the decryption runs only
\* when the MIC has been verified, and the counter is written only when every check
\* has succeeded
OpenOrdering ==
    OpenReturned =>
        /\ StepsFollow(<<"parse", "address", "recover", "verify", "apply",
                         "set_frame_counter">>)
        /\ Len(last.steps) = (CASE last.stage = "parse"    -> 1
                                [] last.stage = "address"  -> 2
                                [] last.stage = "reserved" -> 3
                                [] last.stage = "mic"      -> 4
                                [] last.stage = "stream"   -> 5
                                [] OTHER                   -> 6)
        /\ (last.stage = "done") = (last.result = "ok")
        /\ last.result # "ok" => last.writes = 0 /\ session[last.s] = last.pre /\ last.out = <<>>
        /\ last.result = "ok" => last.writes = 1
        /\ last.result = "ok" /\ last.input.kind = "genuine" =>
              LET raw == RawFrame_parse(build, wire.bytes).val
              IN  /\ \A i \in 1..Len(raw.payload) : raw.payload[i].ks # {}
                  /\ \A i \in 1..Len(raw.mic) : \A k \in raw.mic[i].ks :
                        SameBytes(SubSeq(k.input, 17, Len(k.input)),
                                  raw.header \o raw.payload)

\* open has rejected a frame at the MIC, without decrypting it or writing the counter
MicFailedBeforeDecryption ==
    /\ OpenReturned
    /\ last.stage = "mic"
    /\ last.steps = <<"parse", "address", "recover", "verify">>
    /\ last.writes = 0
    /\ last.out = <<>>


IsKeyStep(step) == step \in {"apply", "compute", "checked_add", "set_frame_counter"}

\* the encryption, the MIC, the exhaustion check and the counter write among the steps
\* of the call that has returned
KeySteps == SelectSeq(last.steps, IsKeyStep)

\* what seal does whatever the place of the exhaustion check: the MIC of a sealed
\* frame is one over the header and the encrypted payload, the counter is written once
\* and as the last of the four steps, and a call that fails has not written it
SealWritesLast ==
    /\ last.result = "ok" =>
          /\ Len(KeySteps) = 4
          /\ KeySteps[4] = "set_frame_counter"
          /\ last.writes = 1
          /\ LET raw == RawFrame_parse(build, wire.bytes).val
             IN  /\ \A i \in 1..Len(raw.payload) : raw.payload[i].ks # {}
                 /\ \A i \in 1..Len(raw.mic) : \A k \in raw.mic[i].ks :
                       SameBytes(SubSeq(k.input, 17, Len(k.input)),
                                 raw.header \o raw.payload)
    /\ last.result # "ok" =>
          /\ \A i \in 1..Len(KeySteps) : KeySteps[i] # "set_frame_counter"
          /\ last.writes = 0
          /\ session[last.s] = last.pre

\* C27 as the specification states it: seal first checks the counter for exhaustion,
\* then encrypts, then computes the MIC over header and ciphertext, then writes the
\* counter, once; a call that fails leaves the counter as it was
SealChecksExhaustionFirst ==
    SealReturned =>
        /\ Len(KeySteps) <= 4
        /\ KeySteps = SubSeq(<<"checked_add", "apply", "compute", "set_frame_counter">>,
                             1, Len(KeySteps))
        /\ SealWritesLast

\* C27 (amended): seal first encrypts the payload, then computes the MIC over header
\* and ciphertext, then checks the counter for exhaustion, and only then writes the
\* counter, once; a seal on an exhausted counter panics after both cryptographic
\* operations and before the write; a call that fails leaves the counter as it was
SealOrdering ==
    SealReturned =>
        /\ Len(KeySteps) <= 4
        /\ KeySteps = SubSeq(<<"apply", "compute", "checked_add", "set_frame_counter">>,
                             1, Len(KeySteps))
        /\ last.stage = "exhausted" => KeySteps = <<"apply", "compute", "checked_add">>
        /\ Pre = u32_MAX /\ last.input.len <= MAX_PAYLOAD_SIZE(build) =>
              last.stage = "exhausted"
        /\ SealWritesLast

\* seal on an exhausted counter has panicked after the encryption and the MIC
ExhaustedAfterCrypto ==
    /\ SealReturned
    /\ Pre = u32_MAX
    /\ last.stage = "exhausted"
    /\ KeySteps = <<"apply", "compute", "checked_add">>
    /\ last.writes = 0


(***************************************************************************)
(* Mutators of a raw frame, checked under UnitSpec.                        *)
(***************************************************************************)
\* the header positions (from 1) that a mutator is to write
FieldOf(b, setter) ==
    CASE setter = "set_address"            -> 2..5
      [] setter = "set_frame_counter_lsbs" -> {FCntAt(b), FCntAt(b) + 1}
      [] setter = "set_frame_ctrl"         -> {6}
      [] setter = "set_frame_port"         -> {9}
      [] OTHER                             -> {}

\* a mutator has written its value into its field and has left every other byte of the
\* raw frame as it was
OwnFieldOnly ==
    LET before == last.args.raw
        after  == last.result
        setter == last.args.setter
    IN  /\ \A i \in 1..HEADER_SIZE(build) :
              i \notin FieldOf(build, setter) => after.header[i] = before.header[i]
        /\ after.payload = before.payload
        /\ setter # "mic_mut" => after.mic = before.mic
        /\ setter = "set_address" => address(after) = U32(258, 772)
        /\ setter = "set_frame_counter_lsbs" => frame_counter_lsbs(build, after) = 1541
        /\ setter = "mic_mut" => \A i \in 1..MIC_SIZE(build) : after.mic[i] = B(9)
        /\ setter = "set_frame_ctrl" => after.header[6] = B(4)
        /\ setter = "set_frame_port" => after.header[9] = B(7)

\* C28 as the specification states it: after every mutator header byte 0 is 0xE0 and
\* the FPort byte, the last byte of the header, is 0x01 and as it was, and the mutator
\* has changed its own field only
FixedBytesNeverModified ==
    UnitReturned("set") =>
        /\ last.result.header[1] = B(MHDR)
        /\ last.result.header[HEADER_SIZE(build)] = B(FPORT)
        /\ last.result.header[HEADER_SIZE(build)] = last.args.raw.header[HEADER_SIZE(build)]
        /\ OwnFieldOnly

\* C28 (amended): after every mutator header byte 0 is 0xE0; with the header of raw.rs
\* the FPort byte is 0x01 after every mutator; with the header of rawframe.rs the FPort
\* byte is as it was after every mutator but set_frame_port, which is its setter; each
\* mutator changes its own field only
MutatorsKeepFixedBytes ==
    UnitReturned("set") =>
        /\ last.result.header[1] = B(MHDR)
        /\ build.codec = "raw" => last.result.header[HEADER_SIZE(build)] = B(FPORT)
        /\ last.args.setter # "set_frame_port" =>
              last.result.header[HEADER_SIZE(build)] = last.args.raw.header[HEADER_SIZE(build)]
        /\ OwnFieldOnly

\* the FPort byte of a raw frame of rawframe.rs has been set
FramePortSet ==
    /\ UnitReturned("set")
    /\ last.args.setter = "set_frame_port"
    /\ last.args.raw.header[9] = B(0)
    /\ last.result.header[9] = B(7)
    /\ last.result.header[1] = B(MHDR)


(***************************************************************************)
(* Frames of one session, checked under ReuseSpec.                         *)
(***************************************************************************)
\* C29: of the frames a session has sealed, whatever it has opened in between, a later
\* one of a direction has a higher frame counter than an earlier one of that
\* direction, so no two of its frames share the direction and the counter, nor bytes
\* 0-13 of the block 0 of the MIC, which hold them
NoContextReuse ==
    \A i \in 1..Len(sealed) : \A j \in (i + 1)..Len(sealed) :
        sealed[i].s = sealed[j].s =>
            /\ sealed[i].d = sealed[j].d =>
                  /\ sealed[i].frame_counter # sealed[j].frame_counter
                  /\ Lt32(sealed[i].frame_counter, sealed[j].frame_counter)
            /\ sealed[i].block0 \cap sealed[j].block0 = {}

\* a session has sealed two frames of a direction and has opened a frame of that
\* direction in between, so that the counter of its second frame is not the next one
SealedAfterOpen ==
    \E i \in 1..Len(sealed) : \E j \in (i + 1)..Len(sealed) :
        /\ sealed[i].s = sealed[j].s
        /\ sealed[i].d = sealed[j].d
        /\ Lt32(Succ32(sealed[i].frame_counter), sealed[j].frame_counter)


(***************************************************************************)
(* Length guards inside seal and open, checked under Spec.                 *)
(***************************************************************************)
\* C30: the length guards of the MIC, of the stream transform and of the frame buffer
\* are never met inside seal and open: a seal fails on the payload length or on the
\* exhausted counter only, an open never panics, and a raw frame that seal has built
\* or open has parsed has at most 255 bytes of header and payload, at most 4080 bytes
\* of payload and at most MAX_MESSAGE_SIZE bytes in all, so that verify decides on the
\* MIC and not on the length
GuardsUnreachable ==
    LET H == HEADER_SIZE(build)
        M == MIC_SIZE(build)
    IN  /\ SealReturned =>
              /\ last.stage \in {"payload", "exhausted", "done"}
              /\ last.result = "ok" =>
                    /\ Len(wire.bytes) <= MAX_MESSAGE_SIZE
                    /\ Len(wire.bytes) - M <= 255
                    /\ Len(wire.bytes) - H - M <= 255 * 16
        /\ OpenReturned =>
              /\ last.result # "panic"
              /\ last.stage \in {"parse", "address", "reserved", "mic", "done"}
              /\ last.parsed =>
                    /\ last.input.len <= MAX_MESSAGE_SIZE
                    /\ last.input.len - M <= 255
                    /\ last.input.len - H - M <= 255 * 16
              /\ last.input.kind = "genuine" /\ Len(last.steps) >= 4 =>
                    LET raw == RawFrame_parse(build, wire.bytes).val
                    IN  verify_call(build, last.pre.nwkskey, last.d, address(raw),
                                    last.frame_counter, raw.header, raw.payload, raw.mic).steps
                            = <<"total_length", "cmac", "block0", "verify_truncated_left">>

\* open has verified the MIC of a frame of MAX_MESSAGE_SIZE bytes
LongestFrameVerified ==
    /\ OpenReturned
    /\ last.input.kind = "genuine"
    /\ last.input.len = MAX_MESSAGE_SIZE
    /\ last.parsed
    /\ Len(last.steps) >= 4

====
